---- MODULE Spec2Model ----
(***************************************************************************)
(* Model of run.py, the wrapper that launches the road accident analysis   *)
(* pipeline: parse_arguments, check_dependencies, check_data_file,         *)
(* run_pipeline and main.                                                  *)
(*                                                                         *)
(* The file system is the set of paths that exist.  A float is modelled by *)
(* its value in thousandths; float() and str() are the conversions argparse*)
(* and run_pipeline apply to --sample.                                     *)
(***************************************************************************)
EXTENDS Integers, Sequences, FiniteSets, TLC

VARIABLES fs, pc, argv, args, depsHist, dataResult, cmd, spawns,
          childOutcome, success, exitCode

vars == <<fs, pc, argv, args, depsHist, dataResult, cmd, spawns,
          childOutcome, success, exitCode>>

(* ---------------------------- bounds ---------------------------------- *)

\* child exit statuses explored: 0..MaxExit
MaxExit == 3

\* number of successive check_dependencies calls explored by SpecDeps
MaxCalls == 2

(* ---------------------------- paths ----------------------------------- *)

Manifest == "requirements.txt"
DataDir == "data"
OutputDir == "output"
VisDir == "output/visualizations"
SqlDir == "output/sql_results"
Script == "src/main.py"
Interpreter == "sys.executable"
DefaultDataPath == "data/US_Accidents.csv"
DefaultOutputPath == "output"
DefaultSample == 100

\* the four directories check_dependencies handles
Dirs == {DataDir, OutputDir, VisDir, SqlDir}

\* files that may lie in data/
DataFiles == {"data/US_Accidents.csv", "data/x.csv"}

\* values given to --data-path; "" stands for the option not being given
DataPathArgs == {"", "data/x.csv", "data"}

\* values given to --output-path; "" stands for the option not being given
OutputPathArgs == {"", "out2"}

\* texts given to --sample; "" stands for the option not being given
SampleArgs == {"", "0.25", "1"}

Components == {"--dask", "--spark", "--sklearn", "--sql", "--visualize"}
Switches == {"--all"} \cup Components
ValueSwitches == {"--sample", "--data-path", "--output-path"}

\* the directory a path lies in ("" for a path at the project root)
Parent(p) ==
  CASE p = VisDir -> OutputDir
    [] p = SqlDir -> OutputDir
    [] p \in DataFiles -> DataDir
    [] OTHER -> ""

\* a file system state the program can start in: nothing exists outside an
\* existing directory
WellFormed(f) == \A p \in f : Parent(p) = "" \/ Parent(p) \in f

os_path_exists(f, p) == p \in f

\* os.makedirs(p, exist_ok=True): p and its missing ancestors come to exist
os_makedirs(f, p) ==
  f \cup {p} \cup (IF Parent(p) = "" THEN {} ELSE {Parent(p)})

(* ------------------------- parse_arguments ---------------------------- *)

\* float(text) in thousandths
float(text) ==
  CASE text = "0.25" -> 250
    [] text = "1" -> 1000
    [] text = "0.1" -> 100
    [] OTHER -> 0

\* str(x) of a float given in thousandths
str(x) ==
  CASE x = 100 -> "0.1"
    [] x = 250 -> "0.25"
    [] x = 1000 -> "1.0"
    [] OTHER -> "0.0"

NoArgv == [flags |-> {}, sample |-> "", data_path |-> "", output_path |-> ""]

Argvs == [flags : SUBSET Switches, sample : SampleArgs,
          data_path : DataPathArgs, output_path : OutputPathArgs]

parse_arguments(v) ==
  [all |-> "--all" \in v.flags,
   dask |-> "--dask" \in v.flags,
   spark |-> "--spark" \in v.flags,
   sklearn |-> "--sklearn" \in v.flags,
   sql |-> "--sql" \in v.flags,
   visualize |-> "--visualize" \in v.flags,
   sample |-> IF v.sample = "" THEN DefaultSample ELSE float(v.sample),
   data_path |-> IF v.data_path = "" THEN DefaultDataPath ELSE v.data_path,
   output_path |-> IF v.output_path = "" THEN DefaultOutputPath
                   ELSE v.output_path]

NoArgs == parse_arguments(NoArgv)

(* --------------------------- run-all policy --------------------------- *)

default_all_M4(a) ==
  IF ~(a.dask \/ a.spark \/ a.sklearn \/ a.sql)
  THEN [a EXCEPT !.all = TRUE] ELSE a

\* main: "If no specific component is selected, run all"
default_all(a) ==
  IF ~(a.dask \/ a.spark \/ a.sklearn \/ a.sql \/ a.visualize)
  THEN [a EXCEPT !.all = TRUE] ELSE a

(* ------------------------- check_dependencies ------------------------- *)

ensure_data(f) ==
  IF ~os_path_exists(f, DataDir) THEN os_makedirs(f, DataDir) ELSE f

ensure_output(f) ==
  IF ~os_path_exists(f, OutputDir)
  THEN os_makedirs(os_makedirs(os_makedirs(f, OutputDir), VisDir), SqlDir)
  ELSE f

\* the manifest is looked for only after the directories were created
check_dependencies_M8(f) ==
  LET g == ensure_output(ensure_data(f)) IN
  IF ~os_path_exists(f, Manifest) THEN [fs |-> g, result |-> FALSE]
  ELSE [fs |-> g, result |-> os_path_exists(g, Script)]

\* a misplaced return: the call that creates output/ reports failure
check_dependencies_M9(f) ==
  IF ~os_path_exists(f, Manifest) THEN [fs |-> f, result |-> FALSE]
  ELSE LET g == ensure_output(ensure_data(f)) IN
       [fs |-> g,
        result |-> os_path_exists(f, OutputDir) /\ os_path_exists(g, Script)]

\* the source files are looked for before the directories are created
check_dependencies_M10(f) ==
  IF ~os_path_exists(f, Manifest) THEN [fs |-> f, result |-> FALSE]
  ELSE IF ~os_path_exists(f, Script) THEN [fs |-> f, result |-> FALSE]
  ELSE [fs |-> ensure_output(ensure_data(f)), result |-> TRUE]

\* returns the file system it leaves and its boolean result
check_dependencies(f) ==
  IF ~os_path_exists(f, Manifest) THEN [fs |-> f, result |-> FALSE]
  ELSE LET g == ensure_output(ensure_data(f)) IN
       [fs |-> g, result |-> os_path_exists(g, Script)]

(* --------------------------- check_data_file -------------------------- *)

check_data_file(f, data_path) == os_path_exists(f, data_path)

(* ----------------------------- run_pipeline --------------------------- *)

flag(b, switch) == IF b THEN <<switch>> ELSE <<>>

\* --sql is forwarded whether or not it was selected
build_cmd_M5(a) ==
  <<Interpreter, Script>>
    \o flag(a.all, "--all") \o flag(a.dask, "--dask")
    \o flag(a.spark, "--spark") \o flag(a.sklearn, "--sklearn")
    \o <<"--sql">> \o flag(a.visualize, "--visualize")
    \o <<"--sample", str(a.sample)>>
    \o <<"--data-path", a.data_path>>
    \o <<"--output-path", a.output_path>>

build_cmd(a) ==
  <<Interpreter, Script>>
    \o flag(a.all, "--all") \o flag(a.dask, "--dask")
    \o flag(a.spark, "--spark") \o flag(a.sklearn, "--sklearn")
    \o flag(a.sql, "--sql") \o flag(a.visualize, "--visualize")
    \o <<"--sample", str(a.sample)>>
    \o <<"--data-path", a.data_path>>
    \o <<"--output-path", a.output_path>>

\* what subprocess.run(cmd, check=True) can do: the child runs and exits with
\* a status, or the child cannot be started and OSError is raised
Outcomes ==
  [kind : {"exit"}, status : 0..MaxExit] \cup [kind : {"oserror"}, status : {0}]

\* subprocess.run(check=True) raises CalledProcessError on a nonzero status
raises_CalledProcessError(o) == o.kind = "exit" /\ o.status # 0

\* the exceptions run_pipeline's except clause handles
caught(o) == raises_CalledProcessError(o)

\* an exception leaves run_pipeline
propagates(o) == o.kind = "oserror" /\ ~caught(o)

(* -------------------------------- main -------------------------------- *)

after_deps_M1(ok) == "data"

\* main: "if not check_dependencies(): sys.exit(1)"
after_deps(ok) == IF ok THEN "data" ELSE "exited"

after_data_M2(ok) == "run"

\* main: "if not check_data_file(args.data_path): sys.exit(1)"
after_data(ok) == IF ok THEN "run" ELSE "exited"

report_exit_M3(ok) == 0

\* main: exit status after run_pipeline returned
report_exit(ok) == IF ok THEN 0 ELSE 1

\* exit status of an interpreter that ends on an uncaught exception
UncaughtExit == 1

Running == -1

Init ==
  /\ fs \in {f \in SUBSET ({Manifest, Script} \cup Dirs \cup DataFiles) :
               WellFormed(f)}
  /\ pc = "parse"
  /\ argv = NoArgv
  /\ args = NoArgs
  /\ depsHist = <<>>
  /\ dataResult = <<>>
  /\ cmd = <<>>
  /\ spawns = 0
  /\ childOutcome = <<>>
  /\ success = <<>>
  /\ exitCode = Running

ParseArguments ==
  /\ pc = "parse"
  /\ \E v \in Argvs :
       /\ argv' = v
       /\ args' = parse_arguments(v)
  /\ pc' = "policy"
  /\ UNCHANGED <<fs, depsHist, dataResult, cmd, spawns, childOutcome,
                 success, exitCode>>

DefaultAll ==
  /\ pc = "policy"
  /\ args' = default_all(args)
  /\ pc' = "deps"
  /\ UNCHANGED <<fs, argv, depsHist, dataResult, cmd, spawns, childOutcome,
                 success, exitCode>>

CheckDependencies ==
  /\ pc = "deps"
  /\ LET r == check_dependencies(fs) IN
       /\ fs' = r.fs
       /\ depsHist' = Append(depsHist,
                             [pre |-> fs, post |-> r.fs, result |-> r.result])
       /\ pc' = after_deps(r.result)
       /\ exitCode' = IF after_deps(r.result) = "exited" THEN 1 ELSE exitCode
  /\ UNCHANGED <<argv, args, dataResult, cmd, spawns, childOutcome, success>>

CheckDataFile ==
  /\ pc = "data"
  /\ LET ok == check_data_file(fs, args.data_path) IN
       /\ dataResult' = Append(dataResult, ok)
       /\ pc' = after_data(ok)
       /\ exitCode' = IF after_data(ok) = "exited" THEN 1 ELSE exitCode
  /\ UNCHANGED <<fs, argv, args, depsHist, cmd, spawns, childOutcome, success>>

RunPipeline ==
  /\ pc = "run"
  /\ cmd' = build_cmd(args)
  /\ spawns' = spawns + 1
  /\ \E o \in Outcomes :
       /\ childOutcome' = Append(childOutcome, o)
       /\ IF propagates(o)
          THEN /\ pc' = "crashed"
               /\ exitCode' = UncaughtExit
               /\ UNCHANGED success
          ELSE /\ pc' = "report"
               /\ success' = Append(success, ~caught(o))
               /\ UNCHANGED exitCode
  /\ UNCHANGED <<fs, argv, args, depsHist, dataResult>>

Report ==
  /\ pc = "report"
  /\ exitCode' = report_exit(success[Len(success)])
  /\ pc' = "exited"
  /\ UNCHANGED <<fs, argv, args, depsHist, dataResult, cmd, spawns,
                 childOutcome, success>>

Next ==
  \/ ParseArguments
  \/ DefaultAll
  \/ CheckDependencies
  \/ CheckDataFile
  \/ RunPipeline
  \/ Report

Spec == Init /\ [][Next]_vars

(* check_dependencies called repeatedly, nothing else touching the files *)
RepeatCheckDependencies ==
  /\ Len(depsHist) < MaxCalls
  /\ LET r == check_dependencies(fs) IN
       /\ fs' = r.fs
       /\ depsHist' = Append(depsHist,
                             [pre |-> fs, post |-> r.fs, result |-> r.result])
  /\ UNCHANGED <<pc, argv, args, dataResult, cmd, spawns, childOutcome,
                 success, exitCode>>

NextDeps == RepeatCheckDependencies

SpecDeps == Init /\ [][NextDeps]_vars

(* ============================ properties ============================== *)

Last(h) == h[Len(h)]
Finished == pc \in {"exited", "crashed"}
ChildExited == childOutcome # <<>> /\ Last(childOutcome).kind = "exit"

\* C1: the stages are hard gates in the order parse, environment check,
\* data-file check, execute: the data file is checked only after
\* check_dependencies returned true, the child is spawned only after both
\* checks returned true, and it is spawned at most once (no retry).
C1_HardGates ==
  /\ (pc \in {"parse", "policy"} =>
        depsHist = <<>> /\ dataResult = <<>> /\ spawns = 0)
  /\ (dataResult # <<>> => depsHist # <<>> /\ Last(depsHist).result)
  /\ (spawns > 0 =>
        /\ depsHist # <<>> /\ Last(depsHist).result
        /\ dataResult # <<>> /\ Last(dataResult))
  /\ spawns <= 1
  /\ Len(depsHist) <= 1
  /\ Len(dataResult) <= 1

C1_Witness ==
  pc = "exited" /\ spawns = 1 /\ success = <<FALSE>> /\ exitCode = 1

\* C2: the wrapper exits 0 exactly when the manifest, the delegated script
\* and the data path all exist and the child exits with status 0; in every
\* other case (environment check failed, data file missing, child exited
\* nonzero) it exits 1.
C2_ExitCode ==
  Finished =>
    LET allPresent == /\ os_path_exists(fs, Manifest)
                      /\ os_path_exists(fs, Script)
                      /\ os_path_exists(fs, args.data_path)
        childZero == ChildExited /\ Last(childOutcome).status = 0
    IN /\ exitCode \in {0, 1}
       /\ (exitCode = 0) <=> (allPresent /\ childZero)
       /\ (~os_path_exists(fs, Manifest) => exitCode = 1)
       /\ (~os_path_exists(fs, Script) => exitCode = 1)
       /\ (~os_path_exists(fs, args.data_path) => exitCode = 1)
       /\ (ChildExited /\ Last(childOutcome).status # 0 => exitCode = 1)

C2_Witness ==
  pc = "exited" /\ exitCode = 0 /\ spawns = 1 /\ args.data_path = "data/x.csv"

\* C3 as stated: in a run where the manifest, the script and the data file
\* are present, the wrapper's exit code equals the child's exit status,
\* whatever that status is.
C3_ExitEqualsChild ==
  pc = "exited" /\ ChildExited => exitCode = Last(childOutcome).status

\* C3 amended: in such a run the wrapper exits 0 when the child exits 0 and
\* exits 1 when the child exits with any nonzero status, so its exit code
\* equals the child's exactly for the child statuses 0 and 1.
C3_ExitCollapsesChild ==
  pc = "exited" /\ ChildExited =>
    /\ exitCode = (IF Last(childOutcome).status = 0 THEN 0 ELSE 1)
    /\ (exitCode = Last(childOutcome).status
          <=> Last(childOutcome).status \in {0, 1})

C3_Witness ==
  pc = "exited" /\ ChildExited /\ Last(childOutcome).status = 2 /\ exitCode = 1

\* C4: the run-all flag used for the child invocation is (--all passed) or
\* (no component flag passed); with no flags at all the child invocation
\* contains --all.
C4_RunAllPolicy ==
  /\ (pc \notin {"parse", "policy"} =>
        args.all = ("--all" \in argv.flags \/ argv.flags \cap Components = {}))
  /\ (cmd # <<>> =>
        (\E i \in DOMAIN cmd : cmd[i] = "--all")
          <=> ("--all" \in argv.flags \/ argv.flags \cap Components = {}))
  /\ (cmd # <<>> /\ argv.flags = {} => \E i \in DOMAIN cmd : cmd[i] = "--all")

C4_Witness ==
  /\ cmd # <<>>
  /\ argv.flags = {}
  /\ \E i \in DOMAIN cmd : cmd[i] = "--all"

Count(seq, x) == Cardinality({i \in DOMAIN seq : seq[i] = x})

Selected(a) ==
  {s \in Switches :
     \/ s = "--all" /\ a.all
     \/ s = "--dask" /\ a.dask
     \/ s = "--spark" /\ a.spark
     \/ s = "--sklearn" /\ a.sklearn
     \/ s = "--sql" /\ a.sql
     \/ s = "--visualize" /\ a.visualize}

\* C5: the argument vector is the interpreter and the script path, then
\* exactly one switch per boolean flag that is true and none for a flag
\* that is false, then --sample, --data-path, --output-path in that order,
\* each followed by its value; no switch occurs twice.
C5_ArgumentVector ==
  cmd # <<>> =>
    LET n == Len(cmd) IN
    /\ n = 2 + Cardinality(Selected(args)) + 6
    /\ cmd[1] = Interpreter /\ cmd[2] = Script
    /\ \A s \in Switches :
         /\ Count(cmd, s) = (IF s \in Selected(args) THEN 1 ELSE 0)
         /\ \A i \in DOMAIN cmd : cmd[i] = s => 2 < i /\ i <= n - 6
    /\ cmd[n - 5] = "--sample" /\ cmd[n - 4] = str(args.sample)
    /\ cmd[n - 3] = "--data-path" /\ cmd[n - 2] = args.data_path
    /\ cmd[n - 1] = "--output-path" /\ cmd[n] = args.output_path
    /\ \A s \in ValueSwitches : Count(cmd, s) = 1

C5_Witness ==
  /\ cmd # <<>>
  /\ args.dask /\ ~args.sql /\ ~args.all
  /\ argv.sample = "1" /\ cmd[Len(cmd) - 4] = "1.0"

\* C6: whatever launching the child does (exit 0, nonzero exit, failure to
\* start), run_pipeline returns a boolean to main and no exception leaves it.
C6_NoExceptionEscapes ==
  spawns > 0 => pc \in {"report", "exited"} /\ Len(success) = spawns

\* C7: after a call of check_dependencies that found the manifest, data/,
\* output/, output/visualizations/ and output/sql_results/ all exist,
\* whatever existed before the call.
C7_AllDirsExist ==
  \A i \in DOMAIN depsHist :
    os_path_exists(depsHist[i].pre, Manifest) => Dirs \subseteq depsHist[i].post

\* C8: when requirements.txt is absent check_dependencies returns false and
\* leaves the file system as it found it.
C8_NoManifestNoEffect ==
  \A i \in DOMAIN depsHist :
    ~os_path_exists(depsHist[i].pre, Manifest) =>
      ~depsHist[i].result /\ depsHist[i].post = depsHist[i].pre

C8_Witness ==
  /\ depsHist # <<>>
  /\ ~os_path_exists(depsHist[1].pre, Manifest)
  /\ ~os_path_exists(depsHist[1].pre, DataDir)
  /\ ~os_path_exists(depsHist[1].pre, OutputDir)
  /\ os_path_exists(depsHist[1].pre, Script)

\* C9: check_dependencies is idempotent: a call that directly follows
\* another returns the same result and leaves the existing paths exactly as
\* the earlier call left them.
C9_Idempotent ==
  \A i \in DOMAIN depsHist :
    i > 1 =>
      /\ depsHist[i].result = depsHist[i - 1].result
      /\ depsHist[i].pre = depsHist[i - 1].post
      /\ depsHist[i].post = depsHist[i - 1].post

C9_Witness ==
  /\ Len(depsHist) >= 2
  /\ depsHist[1].post # depsHist[1].pre
  /\ depsHist[1].result
  /\ depsHist[2].result

\* C10: with the manifest present and src/main.py absent, check_dependencies
\* returns false only after creating the directories, so data/ and output/
\* exist afterwards, and main exits 1 without checking the data file or
\* spawning the child.
C10_FailingCheckCreatesDirs ==
  \A i \in DOMAIN depsHist :
    os_path_exists(depsHist[i].pre, Manifest)
      /\ ~os_path_exists(depsHist[i].pre, Script) =>
        /\ ~depsHist[i].result
        /\ os_path_exists(depsHist[i].post, DataDir)
        /\ os_path_exists(depsHist[i].post, OutputDir)
        /\ os_path_exists(fs, DataDir) /\ os_path_exists(fs, OutputDir)
        /\ pc = "exited" /\ exitCode = 1
        /\ dataResult = <<>> /\ spawns = 0 /\ cmd = <<>>

C10_Witness ==
  /\ depsHist # <<>>
  /\ os_path_exists(depsHist[1].pre, Manifest)
  /\ ~os_path_exists(depsHist[1].pre, Script)
  /\ ~os_path_exists(depsHist[1].pre, DataDir)
  /\ ~os_path_exists(depsHist[1].pre, OutputDir)
  /\ pc = "exited"

====
